---------------------------- MODULE Spec2Model ----------------------------
(***************************************************************************)
(* Model of pytorch_model.py: the CBS log parser (parse_log_line), the     *)
(* loader / feature builder (load_cbs_log) and the module-level training   *)
(* pipeline (standardize, split, autoencoder, anomaly scoring, classifier).*)
(*                                                                         *)
(* A log line is a sequence of tokens.  A token is a record [k, v]:        *)
(*   k = "ts"      text of the shape \d{4}-\d{2}-\d{2} \d{2}:\d{2}:\d{2},  *)
(*                 v = <<Y, M, D, h, m, s>> (the digits read as numbers)   *)
(*   k = "HRESULT" the text "HRESULT = 0x" followed by the hex digits v    *)
(*                 (v = <<>> : no hex digit follows)                       *)
(*   k = "Error", "Warning"  the word, standing alone (\b on both sides)   *)
(*   k = "Errors", "error", "text"  other text (a longer word that only    *)
(*                 contains "Error", the lower-case word, anything else)   *)
(***************************************************************************)
EXTENDS Integers, Sequences, FiniteSets, TLC

VARIABLES
    line,            \* parse_log_line: the argument
    parsed,          \* parse_log_line: the outcome ("notcalled" before the call)
    file_exists,     \* whether open(file_path) succeeds
    file,            \* the lines of the log file
    max_lines,       \* load_cbs_log: the max_lines argument
    pc,              \* position of the script
    i,               \* load_cbs_log: number of lines consumed by the loop
    timestamps,      \* load_cbs_log: timestamps list
    error_codes,     \* load_cbs_log: error_codes list (IDs)
    error_map,       \* load_cbs_log: error code string -> ID
    frequencies,     \* load_cbs_log: ID -> count
    log_frequencies, \* load_cbs_log: per-row frequency column
    X,               \* standardized feature matrix (see Standardize)
    X_train, X_test, \* the two parts of the split
    ae_epochs,       \* completed autoencoder passes
    ae_error,        \* the trained autoencoder in eval mode: feature row -> its
                     \* reconstruction error (mean squared difference)
    clf_epochs,      \* completed classifier passes
    saved,           \* weight files written, in order
    train_errors, test_errors, threshold, y_train, y_test,
    started,         \* history: stages entered, in order
    completed,       \* history: stages that ran to their end, in order
    failure          \* "" or the stage whose exception ended the script

vars == <<line, parsed, file_exists, file, max_lines, pc, i, timestamps,
          error_codes, error_map, frequencies, log_frequencies, X, X_train,
          X_test, ae_epochs, ae_error, clf_epochs, saved, train_errors,
          test_errors, threshold, y_train, y_test, started, completed, failure>>

inputVars == <<file_exists, file, max_lines>>
scanVars  == <<i, timestamps, error_codes, error_map, frequencies>>
trainVars == <<X, X_train, X_test, ae_epochs, ae_error, clf_epochs, saved>>
scoreVars == <<train_errors, test_errors, threshold, y_train, y_test>>

-----------------------------------------------------------------------------
(* Bounds of the model *)
MaxTokens == 3          \* longest line, in tokens, given to parse_log_line alone
MaxFileLines == 4       \* longest file given to load_cbs_log alone
MaxPipelineLines == 3   \* longest file the whole script is run on
MaxTrainRows == 22      \* most training errors given to the scoring step alone

-----------------------------------------------------------------------------
(* Tokens *)
Tok(k, v) == [k |-> k, v |-> v]

TsValidA  == Tok("ts", <<2024, 2, 29, 23, 59, 59>>)
TsValidB  == Tok("ts", <<2024, 3, 1, 0, 0, 0>>)
TsMonth13 == Tok("ts", <<2024, 13, 1, 0, 0, 0>>)
TsHour25  == Tok("ts", <<2024, 1, 1, 25, 0, 0>>)
TsFeb29NonLeap == Tok("ts", <<2023, 2, 29, 0, 0, 0>>)
HrA       == Tok("HRESULT", <<8, 0, 0, 7>>)
HrB       == Tok("HRESULT", <<8, 0, 0, 15>>)
HrNoDigit == Tok("HRESULT", <<>>)
WError    == Tok("Error", <<>>)
WWarning  == Tok("Warning", <<>>)
WErrors   == Tok("Errors", <<>>)
WLower    == Tok("error", <<>>)
WText     == Tok("text", <<>>)

\* the tokens lines are made of when parse_log_line is examined alone
ParseTokens == {TsValidA, TsValidB, TsMonth13, TsHour25, TsFeb29NonLeap, HrA, HrB,
                HrNoDigit, WError, WWarning, WErrors, WLower, WText}

-----------------------------------------------------------------------------
(* parse_log_line *)

\* the first group of the pattern: \d{4}-\d{2}-\d{2} \d{2}:\d{2}:\d{2}
IsTimestampShaped(t) == t.k = "ts"

\* the second group: \bHRESULT = 0x[0-9a-fA-F]+ | \bError\b | \bWarning\b
IsMarker(t) == \/ t.k = "HRESULT" /\ Len(t.v) >= 1
               \/ t.k \in {"Error", "Warning"}

Min(S) == CHOOSE x \in S : \A y \in S : x <= y

\* re.search: start positions are tried left to right; from a timestamp at p
\* the lazy .*? stops at the first marker after p.  None when nothing matches.
NoMatch == [found |-> FALSE]
Max(S) == CHOOSE x \in S : \A y \in S : x >= y
\* the pattern with a greedy .* in place of the lazy .*?
SearchMutGreedy(l) ==
    LET P == {p \in 1..Len(l) :
                 IsTimestampShaped(l[p]) /\ \E q \in (p+1)..Len(l) : IsMarker(l[q])}
    IN  IF P = {} THEN NoMatch
        ELSE LET p == Min(P)
                 q == Max({q \in (p+1)..Len(l) : IsMarker(l[q])})
             IN  [found |-> TRUE, g1 |-> l[p].v, g2 |-> l[q]]
Search(l) ==
    LET P == {p \in 1..Len(l) :
                 IsTimestampShaped(l[p]) /\ \E q \in (p+1)..Len(l) : IsMarker(l[q])}
    IN  IF P = {} THEN NoMatch
        ELSE LET p == Min(P)
                 q == Min({q \in (p+1)..Len(l) : IsMarker(l[q])})
             IN  [found |-> TRUE, g1 |-> l[p].v, g2 |-> l[q]]

IsLeap(y) == (y % 4 = 0 /\ y % 100 # 0) \/ y % 400 = 0
DaysInMonth(y, m) ==
    IF m = 2 THEN (IF IsLeap(y) THEN 29 ELSE 28)
    ELSE IF m \in {4, 6, 9, 11} THEN 30 ELSE 31

\* datetime.strptime(text, "%Y-%m-%d %H:%M:%S") accepts the text
StrptimeOk(d) ==
    /\ d[1] >= 1
    /\ d[2] >= 1 /\ d[2] <= 12
    /\ d[3] >= 1 /\ d[3] <= DaysInMonth(d[1], d[2])
    /\ d[4] <= 23 /\ d[5] <= 59 /\ d[6] <= 59

\* outcome of parse_log_line: (None, None), (timestamp, error_code), or ValueError
ResNone == [kind |-> "none"]
ResRaise == [kind |-> "ValueError"]
\* a malformed timestamp swallowed instead of raised
parse_log_lineMutSwallow(l) ==
    LET match == Search(l)
    IN  IF match.found /\ StrptimeOk(match.g1)
        THEN [kind |-> "event", timestamp |-> match.g1, error_code |-> match.g2]
        ELSE ResNone
\* match.group() called without the "if match" guard
parse_log_lineMutNoGuard(l) ==
    LET match == Search(l)
    IN  IF match.found
        THEN IF StrptimeOk(match.g1)
             THEN [kind |-> "event", timestamp |-> match.g1, error_code |-> match.g2]
             ELSE ResRaise
        ELSE [kind |-> "AttributeError"]
parse_log_line(l) ==
    LET match == Search(l)
    IN  IF match.found
        THEN IF StrptimeOk(match.g1)
             THEN [kind |-> "event", timestamp |-> match.g1, error_code |-> match.g2]
             ELSE ResRaise
        ELSE ResNone

-----------------------------------------------------------------------------
(* parse_log_line examined alone: every line of at most MaxTokens tokens *)

LinesUpTo(n) == UNION {[1..k -> ParseTokens] : k \in 0..n}

Idle ==
    /\ file_exists = TRUE /\ file = <<>> /\ max_lines = 0 /\ i = 0
    /\ timestamps = <<>> /\ error_codes = <<>> /\ error_map = <<>>
    /\ frequencies = <<>> /\ log_frequencies = <<>>
    /\ X = <<>> /\ X_train = <<>> /\ X_test = <<>>
    /\ ae_epochs = 0 /\ ae_error = <<>> /\ clf_epochs = 0 /\ saved = <<>>
    /\ train_errors = <<>> /\ test_errors = <<>> /\ threshold = 0
    /\ y_train = <<>> /\ y_test = <<>>
    /\ started = <<>> /\ completed = <<>> /\ failure = ""

InitParse ==
    /\ line \in LinesUpTo(MaxTokens)
    /\ parsed = [kind |-> "notcalled"]
    /\ pc = "parse"
    /\ Idle

CallParse ==
    /\ pc = "parse"
    /\ parsed.kind = "notcalled"
    /\ parsed' = parse_log_line(line)
    /\ UNCHANGED <<line, pc, inputVars, scanVars, log_frequencies, trainVars,
                   scoreVars, started, completed, failure>>

NextParse == CallParse
SpecParse == InitParse /\ [][NextParse]_vars

-----------------------------------------------------------------------------
(* load_cbs_log *)

\* 5000000000000000000000000 is beyond the integers TLC computes with; any value
\* above the length of every file behaves the same in "if i >= max_lines"
DefaultMaxLines == 2147483647

\* days from 1970-01-01 to the civil date y-m-d
DaysFromCivil(y, m, d) ==
    LET yy  == IF m <= 2 THEN y - 1 ELSE y
        era == yy \div 400
        yoe == yy - era * 400
        mp  == IF m > 2 THEN m - 3 ELSE m + 9
        doy == (153 * mp + 2) \div 5 + d - 1
        doe == yoe * 365 + yoe \div 4 - yoe \div 100 + doy
    IN  era * 146097 + doe - 719468

\* datetime.timestamp() of the naive datetime, the local zone taken as UTC
PosixTimestamp(d) ==
    DaysFromCivil(d[1], d[2], d[3]) * 86400 + d[4] * 3600 + d[5] * 60 + d[6]

\* error_map after "if error_code not in error_map: error_map[error_code] = len(error_map) + 1"
AssignIdMutRenumber(m, code) ==
    IF code \in DOMAIN m THEN [c \in DOMAIN m |-> IF c = code THEN Cardinality(DOMAIN m) ELSE m[c]]
    ELSE m @@ (code :> Cardinality(DOMAIN m) + 1)
AssignId(m, code) ==
    IF code \in DOMAIN m THEN m ELSE m @@ (code :> Cardinality(DOMAIN m) + 1)

\* frequencies after "frequencies[error_id] = frequencies.get(error_id, 0) + 1"
CountMutReset(f, id) == f @@ (id :> 1)
Count(f, id) ==
    IF id \in DOMAIN f THEN [f EXCEPT ![id] = @ + 1] ELSE f @@ (id :> 1)

\* np.array([frequencies[error_code] for error_code in error_codes])
RunningCount(codes, r) == Cardinality({j \in 1..r : codes[j] = codes[r]})
BuildLogFrequenciesMutRunning(f, codes) ==
    [r \in 1..Len(codes) |-> RunningCount(codes, r)]
BuildLogFrequencies(f, codes) == [r \in 1..Len(codes) |-> f[codes[r]]]

\* a log that cannot be opened read as an empty stream of lines
OpenLogMutSwallow ==
    /\ pc = "start"
    /\ started' = Append(started, "load")
    /\ pc' = "scan"
    /\ UNCHANGED <<line, parsed, inputVars, scanVars, log_frequencies, trainVars,
                   scoreVars, completed, failure>>
\* open(file_path, "r", ...) and entry into the loop
OpenLog ==
    /\ pc = "start"
    /\ started' = Append(started, "load")
    /\ IF file_exists
       THEN pc' = "scan" /\ failure' = failure
       ELSE pc' = "failed" /\ failure' = "load"
    /\ UNCHANGED <<line, parsed, inputVars, scanVars, log_frequencies, trainVars,
                   scoreVars, completed>>

\* one iteration of "for i, line in enumerate(f)" that does not break
ScanLine ==
    /\ pc = "scan"
    /\ i < Len(file)
    /\ ~(i >= max_lines)
    /\ line' = file[i + 1]
    /\ parsed' = parse_log_line(file[i + 1])
    /\ IF parsed'.kind \notin {"event", "none"}
       THEN /\ pc' = "failed"
            /\ failure' = "load"
            /\ UNCHANGED <<i, timestamps, error_codes, error_map, frequencies>>
       ELSE IF parsed'.kind = "event"
       THEN /\ timestamps' = Append(timestamps, PosixTimestamp(parsed'.timestamp))
            /\ error_map' = AssignId(error_map, parsed'.error_code)
            /\ error_codes' = Append(error_codes, error_map'[parsed'.error_code])
            /\ frequencies' = Count(frequencies, error_map'[parsed'.error_code])
            /\ i' = i + 1
            /\ UNCHANGED <<pc, failure>>
       ELSE /\ i' = i + 1
            /\ UNCHANGED <<pc, failure, timestamps, error_codes, error_map, frequencies>>
    /\ UNCHANGED <<inputVars, log_frequencies, trainVars, scoreVars, started,
                   completed>>

\* the loop ends (iterator exhausted, or "break" at i >= max_lines) and
\* load_cbs_log returns its three arrays
LoadReturn ==
    /\ pc = "scan"
    /\ (i = Len(file) \/ i >= max_lines)
    /\ log_frequencies' = BuildLogFrequencies(frequencies, error_codes)
    /\ pc' = "loaded"
    /\ completed' = Append(completed, "load")
    /\ UNCHANGED <<line, parsed, inputVars, scanVars, trainVars, scoreVars,
                   started, failure>>

\* the lines files are made of
LnError       == <<TsValidA, WText, WError>>
LnHresult     == <<TsValidB, HrA>>
LnWarning     == <<WText, TsValidA, WWarning, WError>>
LnNoise       == <<WText>>
LnMarkerFirst == <<WError, TsValidA>>
LnBadStamp    == <<TsMonth13, WText, WError>>
LoadLines == {LnError, LnHresult, LnWarning, LnNoise, LnMarkerFirst, LnBadStamp}

FilesOf(L, n) == UNION {[1..k -> L] : k \in 0..n}

InitLoad ==
    /\ file_exists \in BOOLEAN
    /\ file \in FilesOf(LoadLines, MaxFileLines)
    /\ max_lines \in (0..MaxFileLines) \cup {DefaultMaxLines}
    /\ line = <<>> /\ parsed = [kind |-> "notcalled"]
    /\ pc = "start" /\ i = 0
    /\ timestamps = <<>> /\ error_codes = <<>> /\ error_map = <<>>
    /\ frequencies = <<>> /\ log_frequencies = <<>>
    /\ X = <<>> /\ X_train = <<>> /\ X_test = <<>>
    /\ ae_epochs = 0 /\ ae_error = <<>> /\ clf_epochs = 0 /\ saved = <<>>
    /\ train_errors = <<>> /\ test_errors = <<>> /\ threshold = 0
    /\ y_train = <<>> /\ y_test = <<>>
    /\ started = <<>> /\ completed = <<>> /\ failure = ""

NextLoad == OpenLog \/ ScanLine \/ LoadReturn
SpecLoad == InitLoad /\ [][NextLoad]_vars

-----------------------------------------------------------------------------
(* The module-level script, lines 87-177 *)

StageOrder == <<"load", "standardize", "split", "train_autoencoder",
                "save_autoencoder", "score", "train_classifier", "save_classifier">>

batch_size == 8192
num_epochs == 10
percentile_q == 95
AutoencoderFile == "cbs_anomaly_detector.pth"
ClassifierFile == "anomaly_classifier.pth"

\* reconstruction errors the trained autoencoder may give a row
ErrVals == {0, 1, 3}

\* StandardScaler.fit_transform(np.column_stack((a, b, c))): entry r of a column
\* is (v[r] - mean) / sigma.  It is kept here as its numerator times the row
\* count, SUM_j (v[r] - v[j]); the positive divisor n * sigma is the same for
\* the whole column (sigma is replaced by 1 on a constant column).
RECURSIVE SumDiff(_, _, _)
SumDiff(v, r, n) == IF n = 0 THEN 0 ELSE (v[r] - v[n]) + SumDiff(v, r, n - 1)
Centered(v) == [r \in 1..Len(v) |-> SumDiff(v, r, Len(v))]
StandardizeRows(a, b, c) ==
    [r \in 1..Len(a) |-> <<Centered(a)[r], Centered(b)[r], Centered(c)[r]>>]

\* lines 90-91.  sklearn refuses an array of 0 samples with a ValueError.
Standardize ==
    /\ pc = "loaded"
    /\ started' = Append(started, "standardize")
    /\ IF Len(timestamps) = 0
       THEN /\ pc' = "failed" /\ failure' = "standardize"
            /\ UNCHANGED <<X, completed>>
       ELSE /\ X' = StandardizeRows(timestamps, error_codes, log_frequencies)
            /\ completed' = Append(completed, "standardize")
            /\ pc' = "standardized"
            /\ UNCHANGED failure
    /\ UNCHANGED <<line, parsed, inputVars, scanVars, log_frequencies, X_train,
                   X_test, ae_epochs, ae_error, clf_epochs, saved, scoreVars>>

RowOrders(n) == {p \in [1..n -> 1..n] : \A a, b \in 1..n : p[a] = p[b] => a = b}
\* n_test = ceil(test_size * n_samples) with test_size = 0.1
NTest(n) == (n + 9) \div 10

\* line 93: train_test_split(X, test_size=0.1, random_state=42).  The rows are
\* permuted; the first n_test go to the test set, the rest to the training
\* set.  X_train[k] and X_test[k] hold the index in X of the row at position k.
\* An empty training set is a ValueError.
Split ==
    /\ pc = "standardized"
    /\ started' = Append(started, "split")
    /\ IF Len(X) - NTest(Len(X)) = 0
       THEN /\ pc' = "failed" /\ failure' = "split"
            /\ UNCHANGED <<X_train, X_test, completed>>
       ELSE /\ \E p \in RowOrders(Len(X)) :
                 /\ X_test' = [k \in 1..NTest(Len(X)) |-> p[k]]
                 /\ X_train' = [k \in 1..(Len(X) - NTest(Len(X))) |-> p[NTest(Len(X)) + k]]
            /\ completed' = Append(completed, "split")
            /\ pc' = "train_autoencoder"
            /\ UNCHANGED failure
    /\ UNCHANGED <<line, parsed, inputVars, scanVars, log_frequencies, X,
                   ae_epochs, ae_error, clf_epochs, saved, scoreVars>>

FeatureRows == {X[r] : r \in 1..Len(X)}

\* lines 95-125: one pass of "for epoch in range(num_epochs)".  The weights
\* the last pass leaves decide the reconstruction error of every feature row.
AutoencoderEpoch ==
    /\ pc = "train_autoencoder"
    /\ ae_epochs < num_epochs
    /\ ae_epochs' = ae_epochs + 1
    /\ started' = IF ae_epochs = 0 THEN Append(started, "train_autoencoder") ELSE started
    /\ IF ae_epochs' = num_epochs
       THEN /\ \E e \in [FeatureRows -> ErrVals] : ae_error' = e
            /\ completed' = Append(completed, "train_autoencoder")
            /\ pc' = "save_autoencoder"
       ELSE UNCHANGED <<ae_error, completed, pc>>
    /\ UNCHANGED <<line, parsed, inputVars, scanVars, log_frequencies, X, X_train,
                   X_test, clf_epochs, saved, scoreVars, failure>>

\* line 128: torch.save(autoencoder.state_dict(), ...); the write may fail
SaveAutoencoder ==
    /\ pc = "save_autoencoder"
    /\ started' = Append(started, "save_autoencoder")
    /\ \E written \in BOOLEAN :
          IF written
          THEN /\ saved' = Append(saved, AutoencoderFile)
               /\ completed' = Append(completed, "save_autoencoder")
               /\ pc' = "score"
               /\ UNCHANGED failure
          ELSE /\ pc' = "failed" /\ failure' = "save_autoencoder"
               /\ UNCHANGED <<saved, completed>>
    /\ UNCHANGED <<line, parsed, inputVars, scanVars, log_frequencies, X, X_train,
                   X_test, ae_epochs, ae_error, clf_epochs, scoreVars>>

\* ascending order of a sequence of numbers
InsertSorted(srt, x) ==
    LET k == Cardinality({j \in 1..Len(srt) : srt[j] <= x})
    IN  SubSeq(srt, 1, k) \o <<x>> \o SubSeq(srt, k + 1, Len(srt))
RECURSIVE Ascending(_)
Ascending(s) ==
    IF Len(s) = 0 THEN <<>> ELSE InsertSorted(Ascending(Tail(s)), Head(s))

\* the order statistics read one place too low
Percentile100MutOffByOne(errs, q) ==
    LET srt == Ascending(errs)
        pos == q * (Len(errs) - 1)
        lo  == pos \div 100
        rem == pos % 100
    IN  IF lo = 0 THEN 100 * srt[1]
        ELSE IF rem = 0 THEN 100 * srt[lo]
        ELSE 100 * srt[lo] + rem * (srt[lo + 1] - srt[lo])
\* np.percentile(errs, q), times 100: linear interpolation between the order
\* statistics around the position q/100 * (n - 1) of the sorted errors
Percentile100(errs, q) ==
    LET srt == Ascending(errs)
        pos == q * (Len(errs) - 1)
        lo  == pos \div 100
        rem == pos % 100
    IN  IF rem = 0 THEN 100 * srt[lo + 1]
        ELSE 100 * srt[lo + 1] + rem * (srt[lo + 2] - srt[lo + 1])

\* (errs > threshold).astype(int), the threshold given times 100
LabelsMutAtLeast(errs, thr100) ==
    [k \in 1..Len(errs) |-> IF 100 * errs[k] >= thr100 THEN 1 ELSE 0]
Labels(errs, thr100) ==
    [k \in 1..Len(errs) |-> IF 100 * errs[k] > thr100 THEN 1 ELSE 0]

\* lines 132-144: reconstruction errors, threshold and labels
Score ==
    /\ pc = "score"
    /\ started' = Append(started, "score")
    /\ train_errors' = [k \in 1..Len(X_train) |-> ae_error[X[X_train[k]]]]
    /\ test_errors' = [k \in 1..Len(X_test) |-> ae_error[X[X_test[k]]]]
    /\ threshold' = Percentile100(train_errors', percentile_q)
    /\ y_train' = Labels(train_errors', threshold')
    /\ y_test' = Labels(test_errors', threshold')
    /\ completed' = Append(completed, "score")
    /\ pc' = "train_classifier"
    /\ UNCHANGED <<line, parsed, inputVars, scanVars, log_frequencies, trainVars,
                   failure>>

\* lines 146-173: one pass of the classifier loop.  A last batch of one row
\* makes classifier(X_batch).squeeze() a scalar while y_batch keeps one
\* element; BCELoss warns in older torch and raises ValueError in newer torch.
ClassifierEpoch ==
    /\ pc = "train_classifier"
    /\ clf_epochs < num_epochs
    /\ started' = IF clf_epochs = 0 THEN Append(started, "train_classifier") ELSE started
    /\ \E raises \in (IF Len(X_train) % batch_size = 1 THEN BOOLEAN ELSE {FALSE}) :
          IF raises
          THEN /\ pc' = "failed" /\ failure' = "train_classifier"
               /\ UNCHANGED <<clf_epochs, completed>>
          ELSE /\ clf_epochs' = clf_epochs + 1
               /\ IF clf_epochs' = num_epochs
                  THEN /\ completed' = Append(completed, "train_classifier")
                       /\ pc' = "save_classifier"
                  ELSE UNCHANGED <<completed, pc>>
               /\ UNCHANGED failure
    /\ UNCHANGED <<line, parsed, inputVars, scanVars, log_frequencies, X, X_train,
                   X_test, ae_epochs, ae_error, saved, scoreVars>>

\* line 176: torch.save(classifier.state_dict(), ...); the write may fail
SaveClassifier ==
    /\ pc = "save_classifier"
    /\ started' = Append(started, "save_classifier")
    /\ \E written \in BOOLEAN :
          IF written
          THEN /\ saved' = Append(saved, ClassifierFile)
               /\ completed' = Append(completed, "save_classifier")
               /\ pc' = "done"
               /\ UNCHANGED failure
          ELSE /\ pc' = "failed" /\ failure' = "save_classifier"
               /\ UNCHANGED <<saved, completed>>
    /\ UNCHANGED <<line, parsed, inputVars, scanVars, log_frequencies, X, X_train,
                   X_test, ae_epochs, ae_error, clf_epochs, scoreVars>>

\* the script calls load_cbs_log(log_file) with the default max_lines
PipelineLines == {LnError, LnHresult, LnWarning, LnNoise, LnBadStamp}

Init ==
    /\ file_exists \in BOOLEAN
    /\ file \in FilesOf(PipelineLines, MaxPipelineLines)
    /\ max_lines = DefaultMaxLines
    /\ line = <<>> /\ parsed = [kind |-> "notcalled"]
    /\ pc = "start" /\ i = 0
    /\ timestamps = <<>> /\ error_codes = <<>> /\ error_map = <<>>
    /\ frequencies = <<>> /\ log_frequencies = <<>>
    /\ X = <<>> /\ X_train = <<>> /\ X_test = <<>>
    /\ ae_epochs = 0 /\ ae_error = <<>> /\ clf_epochs = 0 /\ saved = <<>>
    /\ train_errors = <<>> /\ test_errors = <<>> /\ threshold = 0
    /\ y_train = <<>> /\ y_test = <<>>
    /\ started = <<>> /\ completed = <<>> /\ failure = ""

Next ==
    \/ OpenLog \/ ScanLine \/ LoadReturn
    \/ Standardize \/ Split
    \/ AutoencoderEpoch \/ SaveAutoencoder
    \/ Score
    \/ ClassifierEpoch \/ SaveClassifier

Spec == Init /\ [][Next]_vars

-----------------------------------------------------------------------------
(* Threshold and labels examined alone, lines 142-143, on training errors of
   up to MaxTrainRows rows: hi rows of error 3, then mid rows of error 1, then
   rows of error 0, the whole rotated by rot places *)

ErrorSeq(n, hi, mid, rot) ==
    [k \in 1..n |-> LET j == ((k - 1 + rot) % n) + 1
                    IN  IF j <= hi THEN 3 ELSE IF j <= hi + mid THEN 1 ELSE 0]

InitScore ==
    /\ \E n \in 1..MaxTrainRows : \E hi \in 0..n : \E mid \in 0..(n - hi) :
       \E rot \in 0..(n - 1) : train_errors = ErrorSeq(n, hi, mid, rot)
    /\ pc = "score_alone"
    /\ line = <<>> /\ parsed = [kind |-> "notcalled"]
    /\ file_exists = TRUE /\ file = <<>> /\ max_lines = 0 /\ i = 0
    /\ timestamps = <<>> /\ error_codes = <<>> /\ error_map = <<>>
    /\ frequencies = <<>> /\ log_frequencies = <<>>
    /\ X = <<>> /\ X_train = <<>> /\ X_test = <<>>
    /\ ae_epochs = 0 /\ ae_error = <<>> /\ clf_epochs = 0 /\ saved = <<>>
    /\ test_errors = <<>> /\ threshold = 0
    /\ y_train = <<>> /\ y_test = <<>>
    /\ started = <<>> /\ completed = <<>> /\ failure = ""

ScoreAlone ==
    /\ pc = "score_alone"
    /\ threshold' = Percentile100(train_errors, percentile_q)
    /\ y_train' = Labels(train_errors, threshold')
    /\ pc' = "scored"
    /\ UNCHANGED <<line, parsed, inputVars, scanVars, log_frequencies, trainVars,
                   train_errors, test_errors, y_test, started, completed, failure>>

NextScore == ScoreAlone
SpecScore == InitScore /\ [][NextScore]_vars

-----------------------------------------------------------------------------
(* Notions the claims are stated in *)

\* a calendar date and time of day
ValidDateTime(d) ==
    /\ d[1] \in 1..9999 /\ d[2] \in 1..12 /\ d[3] \in 1..DaysInMonth(d[1], d[2])
    /\ d[4] \in 0..23 /\ d[5] \in 0..59 /\ d[6] \in 0..59

TsPositions(l) == {p \in 1..Len(l) : l[p].k = "ts"}
MarkerPositions(l) ==
    {q \in 1..Len(l) : \/ l[q].k \in {"Error", "Warning"}
                       \/ l[q].k = "HRESULT" /\ l[q].v # <<>>}

\* the line matches the event pattern: a timestamp-shaped text, a marker later
MatchesPattern(l) == \E p \in TsPositions(l) : \E q \in MarkerPositions(l) : p < q
\* the timestamp text the pattern captures, and the marker it captures
CapturedStamp(l) == l[Min({p \in TsPositions(l) : \E q \in MarkerPositions(l) : p < q})].v
CapturedMarker(l) ==
    LET p == Min({pp \in TsPositions(l) : \E q \in MarkerPositions(l) : pp < q})
    IN  l[Min({q \in MarkerPositions(l) : p < q})]
IsEventLine(l) == MatchesPattern(l) /\ ValidDateTime(CapturedStamp(l))
IsMalformedLine(l) == MatchesPattern(l) /\ ~ValidDateTime(CapturedStamp(l))

\* the lines the loop has consumed that are events, in line order
RECURSIVE EventLines(_)
EventLines(n) ==
    IF n = 0 THEN <<>>
    ELSE IF IsEventLine(file[n]) THEN Append(EventLines(n - 1), n)
    ELSE EventLines(n - 1)
CodeOfLine(j) == CapturedMarker(file[j])
Range(f) == {f[x] : x \in DOMAIN f}
RECURSIVE SumOver(_, _)
SumOver(f, S) ==
    IF S = {} THEN 0
    ELSE LET x == CHOOSE y \in S : TRUE IN f[x] + SumOver(f, S \ {x})

-----------------------------------------------------------------------------
(* C3: parse_log_line on lines with a valid timestamp and a marker *)

\* C3 as stated: a line with a valid timestamp and at least one marker
\* (anywhere on the line) gives a (timestamp, error_code) pair; a line with no
\* timestamp and no marker gives (None, None).
C3_AsStated ==
    parsed.kind # "notcalled" =>
        /\ ( /\ \E p \in TsPositions(line) : ValidDateTime(line[p].v)
             /\ MarkerPositions(line) # {} ) => parsed.kind = "event"
        /\ (TsPositions(line) = {} /\ MarkerPositions(line) = {}) => parsed = ResNone

\* C3 amended: when the leftmost timestamp-shaped text of the line is a valid
\* date/time and a marker follows it later on the line, parse_log_line returns
\* that timestamp and the first marker after it; a line with no timestamp and
\* no marker gives (None, None).
C3_MarkerAfterStamp ==
    parsed.kind # "notcalled" =>
        /\ ( /\ TsPositions(line) # {}
             /\ ValidDateTime(line[Min(TsPositions(line))].v)
             /\ \E q \in MarkerPositions(line) : q > Min(TsPositions(line)) )
           => /\ parsed.kind = "event"
              /\ parsed.timestamp = line[Min(TsPositions(line))].v
              /\ parsed.error_code =
                   line[Min({q \in MarkerPositions(line) : q > Min(TsPositions(line))})]
        /\ (TsPositions(line) = {} /\ MarkerPositions(line) = {}) => parsed = ResNone

\* a line with text, a valid timestamp and two markers after it has been parsed
C3_Witness ==
    /\ pc = "parse"
    /\ line = <<WText, TsValidA, WWarning>>
    /\ parsed.kind = "event"

-----------------------------------------------------------------------------
(* C1: the error-code registry *)

FirstLineOf(c, n) == Min({j \in Range(EventLines(n)) : CodeOfLine(j) = c})
CodesSeen(n) == {CodeOfLine(j) : j \in Range(EventLines(n))}
\* position of c among the distinct codes of lines 1..n, by first occurrence
Rank(c, n) == Cardinality({d \in CodesSeen(n) : FirstLineOf(d, n) <= FirstLineOf(c, n)})

C1_DenseFirstOccurrence ==
    /\ DOMAIN error_map = CodesSeen(i)
    /\ \A c \in DOMAIN error_map : error_map[c] = Rank(c, i)
    /\ Range(error_map) = 1..Cardinality(CodesSeen(i))
C1_IdsKept ==
    \A c \in DOMAIN error_map : c \in DOMAIN error_map' /\ error_map'[c] = error_map[c]

\* C1: after any prefix of the scan the registry maps the distinct codes seen
\* so far one-to-one onto 1..N, the k-th distinct code having ID k, and a later
\* line never changes an ID already assigned.
C1_Registry == []C1_DenseFirstOccurrence /\ [][C1_IdsKept]_vars

\* three distinct codes were registered and one of them came a second time
C1_Witness ==
    /\ pc = "loaded"
    /\ Cardinality(DOMAIN error_map) = 3
    /\ Len(error_codes) = 4
    /\ error_codes[4] < 3

-----------------------------------------------------------------------------
(* C2: the frequency table *)

\* C2: after any prefix of the scan, the counts sum to the number of parsed
\* events, which is the length of timestamps and of error_codes; the keys of
\* the table are the assigned IDs and every count is at least 1.
C2_FrequencySum ==
    /\ SumOver(frequencies, DOMAIN frequencies) = Len(EventLines(i))
    /\ Len(timestamps) = Len(EventLines(i))
    /\ Len(error_codes) = Len(EventLines(i))
    /\ DOMAIN frequencies = Range(error_map)
    /\ \A id \in DOMAIN frequencies : frequencies[id] >= 1

\* two IDs are counted, one of them twice, in the middle of the scan
C2_Witness ==
    /\ pc = "scan"
    /\ Cardinality(DOMAIN frequencies) = 2
    /\ \E id \in DOMAIN frequencies : frequencies[id] = 2
    /\ i < Len(file)

-----------------------------------------------------------------------------
(* C5: a malformed timestamp in a matching line *)

C5_NoneSkipped == \A j \in 1..i : ~IsMalformedLine(file[j])
C5_NothingReturned ==
    (pc = "failed" /\ file_exists) =>
        /\ failure = "load" /\ log_frequencies = <<>> /\ completed = <<>>
        /\ IsMalformedLine(file[i + 1])
C5_AbortsThere ==
    (pc = "scan" /\ i < Len(file) /\ i < max_lines /\ IsMalformedLine(file[i + 1]))
        => (pc' = "failed" /\ i' = i /\ timestamps' = timestamps
            /\ error_codes' = error_codes)
C5_FailedIsFinal == pc = "failed" => pc' = "failed" /\ i' = i

\* C5: a line that matches the pattern with a timestamp text that is no valid
\* date/time aborts the scan at that line: the line is not skipped, no later
\* line is processed and load_cbs_log returns nothing.
C5_MalformedAborts ==
    /\ [](C5_NoneSkipped /\ C5_NothingReturned)
    /\ [][C5_AbortsThere /\ C5_FailedIsFinal]_vars

\* the scan was aborted at a malformed line after an event, lines still to come
C5_Witness ==
    /\ pc = "failed" /\ file_exists
    /\ i >= 1 /\ Len(timestamps) >= 1
    /\ i + 1 < Len(file)
    /\ IsEventLine(file[i + 2])

-----------------------------------------------------------------------------
(* C6: lines that do not match the pattern *)

C6_SkipLeavesAll ==
    (pc = "scan" /\ i < Len(file) /\ i < max_lines /\ ~MatchesPattern(file[i + 1]))
        => /\ pc' = "scan" /\ i' = i + 1 /\ failure' = failure
           /\ UNCHANGED <<timestamps, error_codes, error_map, frequencies>>
C6_LaterEventsRecorded ==
    pc = "loaded" =>
        /\ i = (IF max_lines < Len(file) THEN max_lines ELSE Len(file))
        /\ timestamps = [r \in 1..Len(EventLines(i)) |->
                            PosixTimestamp(CapturedStamp(file[EventLines(i)[r]]))]

\* C6: a line that does not match the pattern is skipped without error, the
\* four collections stay as they are and the scan goes on, so the matching
\* lines after it (within max_lines) are recorded.
C6_NonMatchSkipped == []C6_LaterEventsRecorded /\ [][C6_SkipLeavesAll]_vars

\* an event recorded after two non-matching lines, one between two events
C6_Witness ==
    /\ pc = "loaded"
    /\ Len(file) = 4
    /\ ~MatchesPattern(file[1]) /\ IsEventLine(file[2])
    /\ ~MatchesPattern(file[3]) /\ IsEventLine(file[4])
    /\ Len(timestamps) = 2

-----------------------------------------------------------------------------
(* C7: what load_cbs_log returns *)

\* C7: the three sequences have one entry per parsed event, in line order, and
\* the frequency of row r is the number of parsed events of the whole scan
\* that carry the code of row r; rows with one ID carry one frequency.
C7_FinalCounts ==
    pc = "loaded" =>
        LET ev == EventLines(i) IN
        /\ Len(timestamps) = Len(ev)
        /\ Len(error_codes) = Len(ev)
        /\ DOMAIN log_frequencies = 1..Len(ev)
        /\ \A r \in 1..Len(ev) :
              /\ timestamps[r] = PosixTimestamp(CapturedStamp(file[ev[r]]))
              /\ error_codes[r] = error_map[CodeOfLine(ev[r])]
              /\ log_frequencies[r] =
                   Cardinality({j \in Range(ev) : CodeOfLine(j) = CodeOfLine(ev[r])})
        /\ \A r1, r2 \in 1..Len(ev) :
              error_codes[r1] = error_codes[r2] => log_frequencies[r1] = log_frequencies[r2]

\* the first row carries a count that was only reached two events later
C7_Witness ==
    /\ pc = "loaded"
    /\ Len(error_codes) >= 3
    /\ error_codes[1] = error_codes[3] /\ error_codes[2] # error_codes[1]
    /\ log_frequencies[1] = 2

-----------------------------------------------------------------------------
(* C4: a log without events *)

\* C4: when the scan yields no event the script stops with its own
\* diagnostic before standardization: standardization is never entered with
\* zero rows.
C4_ZeroEventsStopEarly ==
    (pc # "scan" /\ Len(timestamps) = 0) => "standardize" \notin Range(started)

-----------------------------------------------------------------------------
(* C8: the derived labels *)

RowError(idx) == ae_error[X[idx]]

\* C8: the label of every training row and every test row is 1 exactly when
\* the row's reconstruction error is strictly above the threshold, the 95th
\* percentile of the training errors alone; label k belongs to row k of its
\* set, and one threshold serves both sets.
C8_StrictLabels ==
    "score" \in Range(completed) =>
        /\ threshold = Percentile100([k \in 1..Len(X_train) |-> RowError(X_train[k])], 95)
        /\ DOMAIN y_train = 1..Len(X_train)
        /\ DOMAIN y_test = 1..Len(X_test)
        /\ \A k \in 1..Len(X_train) :
              y_train[k] = (IF 100 * RowError(X_train[k]) > threshold THEN 1 ELSE 0)
        /\ \A k \in 1..Len(X_test) :
              y_test[k] = (IF 100 * RowError(X_test[k]) > threshold THEN 1 ELSE 0)

\* a training row whose error is the threshold is labeled 0 while the test
\* row, with a larger error, is labeled 1
C8_Witness ==
    /\ pc = "done"
    /\ \E k \in 1..Len(X_train) : 100 * train_errors[k] = threshold /\ y_train[k] = 0
    /\ \E k \in 1..Len(X_test) : y_test[k] = 1

-----------------------------------------------------------------------------
(* C9: how many training rows are labeled anomalous *)

Anomalous(y) == Cardinality({k \in DOMAIN y : y[k] = 1})

\* C9: of n training errors at most 5% of n, rounded up, are labeled 1, and
\* none when all the errors are equal.
C9_AtMostFivePercent ==
    pc = "scored" =>
        /\ Anomalous(y_train) <= (Len(train_errors) + 19) \div 20
        /\ (\A a, b \in 1..Len(train_errors) : train_errors[a] = train_errors[b])
              => Anomalous(y_train) = 0

\* 22 training errors of which two, the largest, are labeled anomalous
C9_Witness ==
    /\ pc = "scored"
    /\ Len(train_errors) = 22
    /\ Anomalous(y_train) = 2

-----------------------------------------------------------------------------
(* C10: the order of the stages *)

IsPrefix(a, b) == Len(a) <= Len(b) /\ \A k \in 1..Len(a) : a[k] = b[k]

\* C10: the stages are entered in the fixed order, each at most once and only
\* after every earlier stage has run to its end; both trainings make 10
\* passes; a weight file is written only by its save stage; and when the log
\* cannot be opened no pass runs and no file is written.
C10_StagesInOrder ==
    /\ IsPrefix(started, StageOrder)
    /\ IsPrefix(completed, started)
    /\ Len(started) <= Len(completed) + 1
    /\ ae_epochs \in 0..10 /\ clf_epochs \in 0..10
    /\ ae_epochs > 0 => Len(completed) >= 3
    /\ clf_epochs > 0 => Len(completed) >= 6
    /\ Len(completed) >= 4 => ae_epochs = 10
    /\ Len(completed) >= 7 => clf_epochs = 10
    /\ saved = (IF Len(completed) >= 8 THEN <<AutoencoderFile, ClassifierFile>>
                ELSE IF Len(completed) >= 5 THEN <<AutoencoderFile>> ELSE <<>>)
    /\ ~file_exists => /\ Len(started) <= 1 /\ completed = <<>>
                       /\ ae_epochs = 0 /\ clf_epochs = 0 /\ saved = <<>>

\* the whole script has run: eight stages, twenty passes, two files
C10_Witness ==
    /\ pc = "done"
    /\ completed = StageOrder
    /\ ae_epochs = 10 /\ clf_epochs = 10
    /\ Len(saved) = 2

\* the log could not be opened and the script has stopped
C10_WitnessNoFile == pc = "failed" /\ ~file_exists /\ started = <<"load">>

=============================================================================
